---------------------------- MODULE Spec2Model ----------------------------
(***************************************************************************)
(* A model of the FIB-Tomography viewer: the FIBTomo volume object         *)
(* (src/FIB_Tomo.py), the Qt/VTK application built on it (src/GUI.py) and  *)
(* the stand-alone VTK3DReconstruction pipeline                            *)
(* (src/VTK3DReconstruction.py).                                           *)
(*                                                                         *)
(* A numpy array is a record [shape, buf]: buf holds the elements in C     *)
(* (row-major) order, as numpy stores a freshly made array.  Indexing,     *)
(* transposition, ravel, pad and hstack are computed on that layout.       *)
(***************************************************************************)
EXTENDS Integers, Sequences, FiniteSets, TLC

(***************************************************************************)
(* Bounds of the model.                                                    *)
(***************************************************************************)
\* Every axis of a volume, and of the dims given to FIBTomo(), is 1..MaxDim.
MaxDim == 2

\* Shapes (depth, height, width) of the volumes the model draws from.
Shapes == (1..MaxDim) \X (1..MaxDim) \X (1..MaxDim)

\* The arguments update_slice is called with, per axis: a negative one, the
\* first and the last index of the longest axis, and one past it.
OffsetInputs == {-1, 0, MaxDim - 1, MaxDim}

\* The dims FIBTomo(dims) is made with where load_image() generates the
\* volume: the width reaches one further, so that a row of the gradient has
\* a sample between its two ends.
Dims == (1..MaxDim) \X (1..MaxDim) \X (1..(MaxDim + 1))

\* The widths of the render window, in pixels: narrow, odd and wide ones
\* around the 400 of the worked example.
Widths == {100, 101, 240, 400, 401}

\* The shape of the stack handed to create_vtk_volume(image_stack) explicitly.
ExplicitShape == <<1, MaxDim, 2>>

(***************************************************************************)
(* Program constants.                                                      *)
(***************************************************************************)
\* np.uint8: one sample is a value 0..255.
Uint8Max == 255

\* FIBTomo.__init__'s default dims=(100, 100, 100), used by the application.
DefaultDim == 100

DefaultDims == <<DefaultDim, DefaultDim, DefaultDim>>

(***************************************************************************)
(* numpy arrays                                                            *)
(***************************************************************************)
\* Python's None, where the code holds None in place of an array.
None == [shape |-> <<>>, buf |-> <<>>]

Max2(a, b) == IF a >= b THEN a ELSE b

\* max(depth, height, width)
Max3(a, b, c) == Max2(a, Max2(b, c))

\* a[i, j, k] of a 3-D array, 0-based, indices already in range.
At3(a, i, j, k) == a.buf[(i * a.shape[2] + j) * a.shape[3] + k + 1]

\* a[r, c] of a 2-D array, 0-based.
At2(a, r, c) == a.buf[r * a.shape[2] + c + 1]

\* numpy accepts an index i on an axis of length n when -n <= i < n ...
InBounds(i, n) == (-n <= i) /\ (i < n)

\* ... counting a negative one from the end.
NormIndex(i, n) == IF i < 0 THEN i + n ELSE i

\* np.clip(v, lo, hi)
Clip(v, lo, hi) == IF v < lo THEN lo ELSE IF v > hi THEN hi ELSE v

\* a[i, :, :]: shape (height, width).
IndexAxis0(a, i) ==
    LET H == a.shape[2]
        W == a.shape[3]
        ii == NormIndex(i, a.shape[1])
    IN  [shape |-> <<H, W>>,
         buf |-> [n \in 1..(H * W) |-> At3(a, ii, (n - 1) \div W, (n - 1) % W)]]

\* A bug: a[:, 0, :], the index left out of the subscript.
IndexAxis1Row0(a, j) ==
    [shape |-> <<a.shape[1], a.shape[3]>>,
     buf |-> [n \in 1..(a.shape[1] * a.shape[3]) |->
                a.buf[((n - 1) \div a.shape[3]) * a.shape[2] * a.shape[3]
                      + ((n - 1) % a.shape[3]) + 1]]]

\* a[:, j, :]: shape (depth, width).
IndexAxis1(a, j) ==
    LET D == a.shape[1]
        W == a.shape[3]
        jj == NormIndex(j, a.shape[2])
    IN  [shape |-> <<D, W>>,
         buf |-> [n \in 1..(D * W) |-> At3(a, (n - 1) \div W, jj, (n - 1) % W)]]

\* a[:, :, k]: shape (depth, height).
IndexAxis2(a, k) ==
    LET D == a.shape[1]
        H == a.shape[2]
        kk == NormIndex(k, a.shape[3])
    IN  [shape |-> <<D, H>>,
         buf |-> [n \in 1..(D * H) |-> At3(a, (n - 1) \div H, (n - 1) % H, kk)]]

\* np.transpose(a, (2, 1, 0)): t[x, y, z] = a[z, y, x], shape reversed.
Transpose210(a) ==
    LET D == a.shape[1]
        H == a.shape[2]
        W == a.shape[3]
    IN  [shape |-> <<W, H, D>>,
         buf |-> [n \in 1..(W * H * D) |->
                    At3(a, (n - 1) % D, ((n - 1) \div D) % H, (n - 1) \div (D * H))]]

\* A bug: a.ravel() in numpy's default order "C", the last index fastest.
RavelC(a) == a.buf

\* a.ravel(order="F") of a 3-D array: the first index varies fastest.
RavelF(a) ==
    LET n0 == a.shape[1]
        n1 == a.shape[2]
        n2 == a.shape[3]
    IN  [n \in 1..(n0 * n1 * n2) |->
            At3(a, (n - 1) % n0, ((n - 1) \div n0) % n1, (n - 1) \div (n0 * n1))]

\* np.zeros(dims, dtype=np.uint8)
Zeros(dims) ==
    [shape |-> dims, buf |-> [n \in 1..(dims[1] * dims[2] * dims[3]) |-> 0]]

\* round(a / b) of Python for a >= 0, b > 0: to the nearest integer, a half
\* to the even one.
Round(a, b) ==
    LET q == a \div b
        r == a % b
    IN  IF 2 * r > b \/ (2 * r = b /\ q % 2 = 1) THEN q + 1 ELSE q

\* A bug: the samples of the gradient rounded to the nearest integer.
LinspaceRounded(w, x) == IF w = 1 THEN 0 ELSE Round(Uint8Max * x, w - 1)

\* np.linspace(0, 255, w, dtype=np.uint8)[x]: the float x * (255 / (w - 1)),
\* the last sample 255 itself, cut to uint8 by astype, which drops the
\* fraction.  Below w = 106 the float product has the integer part of the
\* exact quotient.
Linspace(w, x) == IF w = 1 THEN 0 ELSE (Uint8Max * x) \div (w - 1)

\* v[z, y, :] = np.linspace(0, 255, width, dtype=np.uint8)
SetRow(v, z, y) ==
    LET H == v.shape[2]
        W == v.shape[3]
    IN  [v EXCEPT !.buf = [n \in 1..Len(v.buf) |->
            IF (n - 1) \div W = z * H + y THEN Linspace(W, (n - 1) % W)
            ELSE v.buf[n]]]

\* np.pad(s, ((0, m - rows), (0, m - cols)), mode='constant') of a 2-D array.
Pad(s, m) ==
    LET R == s.shape[1]
        C == s.shape[2]
    IN  [shape |-> <<m, m>>,
         buf |-> [n \in 1..(m * m) |->
                    LET r == (n - 1) \div m
                        c == (n - 1) % m
                    IN  IF r < R /\ c < C THEN At2(s, r, c) ELSE 0]]

\* np.hstack([a, b, c]) of three m x m arrays: shape (m, 3m).
HStack(a, b, c) ==
    LET m == a.shape[1]
    IN  [shape |-> <<m, 3 * m>>,
         buf |-> [n \in 1..(3 * m * m) |->
                    LET r == (n - 1) \div (3 * m)
                        col == (n - 1) % (3 * m)
                    IN  IF col < m THEN At2(a, r, col)
                        ELSE IF col < 2 * m THEN At2(b, r, col - m)
                        ELSE At2(c, r, col - 2 * m)]]

RECURSIVE SeqMax(_)
\* np.max(a) over the elements of a non-empty array.
SeqMax(s) == IF Len(s) = 1 THEN s[1] ELSE Max2(s[1], SeqMax(Tail(s)))

(***************************************************************************)
(* The TIFF stacks on disk                                                 *)
(***************************************************************************)
\* The stack of shape s that a file decodes to: voxel n (C order) holds n
\* itself, as a uint8, so that every voxel of a small volume is distinct.
Stack(s) ==
    [shape |-> s,
     buf |-> [n \in 1..(s[1] * s[2] * s[3]) |-> (n - 1) % (Uint8Max + 1)]]

\* A file name stands for the shape of the stack stored under it.
Files == Shapes

\* A name under which there is no file: tiff.TiffFile raises.
NoSuchFile == <<0, 0, 0>>

\* filename=None, the default of load_image.
NoFile == <<>>

(***************************************************************************)
(* class FIBTomo (src/FIB_Tomo.py).  A FIBTomo object is a record; a       *)
(* method is an operator from the object (and its arguments) to the record *)
(* [tomo, err, out]: the object after the call, the exception raised       *)
(* ("none" when the call returns) and what the call returned or drew.      *)
(***************************************************************************)
\* FIBTomo.__init__(dims)
FIBTomo_init(dims) ==
    [dims |-> dims, volume |-> None, loaded |-> FALSE,
     x_offset |-> dims[3] \div 2,
     y_offset |-> dims[2] \div 2,
     z_offset |-> dims[1] \div 2]

\* FIBTomo.update_slice(x, y, z)
update_slice(t, x, y, z) ==
    [t EXCEPT !.x_offset = x, !.y_offset = y, !.z_offset = z]

\* The end of load_image: the loaded flag and the offsets.
load_image_finish(t) ==
    [t EXCEPT !.loaded = TRUE,
              !.x_offset = t.dims[3] \div 2,
              !.y_offset = t.dims[2] \div 2,
              !.z_offset = t.dims[1] \div 2]

\* load_image(filename) with a file name.
load_image_file(t, f) ==
    IF f = NoSuchFile
    THEN [tomo |-> t, err |-> "FileNotFoundError", out |-> None]
    ELSE LET t1 == [t EXCEPT !.volume = Stack(f)]
         IN  [tomo |-> load_image_finish(t1), err |-> "none", out |-> Stack(f)]

\* vtkImageImport over slice_2d.tobytes() with whole extent
\* (0, width - 1, 0, height - 1, 0, 0): the image of a 2-D array.
ImportImage(s) ==
    [dimensions |-> <<s.shape[2], s.shape[1], 1>>, scalars |-> s.buf]

\* A bug: the clamped index stored as the object's z_offset.
get_vtk_image_clamping(t) ==
    IF ~t.loaded \/ t.volume = None
    THEN [tomo |-> t, err |-> "ValueError", out |-> None]
    ELSE [tomo |-> [t EXCEPT !.z_offset = Clip(@, 0, t.volume.shape[1] - 1)],
          err |-> "none",
          out |-> [index |-> Clip(t.z_offset, 0, t.volume.shape[1] - 1),
                   slice |-> IndexAxis0(t.volume,
                                        Clip(t.z_offset, 0, t.volume.shape[1] - 1)),
                   image |-> ImportImage(
                                IndexAxis0(t.volume,
                                           Clip(t.z_offset, 0, t.volume.shape[1] - 1)))]]

\* FIBTomo.get_vtk_image()
get_vtk_image(t) ==
    IF ~t.loaded \/ t.volume = None
    THEN [tomo |-> t, err |-> "ValueError", out |-> None]
    ELSE LET z_index == Clip(t.z_offset, 0, t.volume.shape[1] - 1)
             slice_2d == IndexAxis0(t.volume, z_index)
         IN  [tomo |-> t, err |-> "none",
              out |-> [index |-> z_index, slice |-> slice_2d,
                       image |-> ImportImage(slice_2d)]]

\* The vtkImageData built of a stack: dimensions, spacing and scalars.
VtkVolume(image_stack) ==
    LET depth == image_stack.shape[1]
        height == image_stack.shape[2]
        width == image_stack.shape[3]
        transposed == Transpose210(image_stack)
    IN  [dimensions |-> <<width, height, depth>>,
         spacing |-> <<1, 1, 1>>,
         scalars |-> RavelF(transposed)]

\* FIBTomo.create_vtk_volume(image_stack); image_stack may be None.
FIBTomo_create_vtk_volume(t, image_stack) ==
    IF image_stack = None /\ (~t.loaded \/ t.volume = None)
    THEN [tomo |-> t, err |-> "ValueError", out |-> None]
    ELSE [tomo |-> t, err |-> "none",
          out |-> VtkVolume(IF image_stack = None THEN t.volume ELSE image_stack)]

\* FIBTomo.show_orthogonal_planes(vtk_data); vtk_data may be None.
FIBTomo_show_orthogonal_planes(t, vtk_data) ==
    LET made == IF vtk_data = None THEN FIBTomo_create_vtk_volume(t, None)
                ELSE [tomo |-> t, err |-> "none", out |-> vtk_data]
        axial == get_vtk_image(t)
    IN  IF made.err # "none" THEN made
        ELSE IF axial.err # "none" THEN axial
        ELSE LET y_index == Clip(t.y_offset, 0, t.volume.shape[2] - 1)
                 x_index == Clip(t.x_offset, 0, t.volume.shape[3] - 1)
             IN  [tomo |-> t, err |-> "none",
                  out |-> [vtk_data |-> made.out,
                           index |-> <<x_index, y_index, axial.out.index>>,
                           axial |-> axial.out.image,
                           coronal |-> ImportImage(IndexAxis1(t.volume, y_index)),
                           sagittal |-> ImportImage(IndexAxis2(t.volume, x_index))]]

\* FIBTomo.generate_volume_rendering(vtk_data); vtk_data may be None.
generate_volume_rendering(t, vtk_data) ==
    IF vtk_data = None THEN FIBTomo_create_vtk_volume(t, None)
    ELSE [tomo |-> t, err |-> "none", out |-> vtk_data]

(***************************************************************************)
(* animate_slices (FIBTomo and VTK3DReconstruction share the loop body)    *)
(***************************************************************************)
\* What a NaN becomes under .astype(np.uint8): C leaves the conversion
\* undefined, so the build decides; every NaN of a run converts alike.
NanCasts == {0, Uint8Max}

\* (combined / np.max(combined) * 255).astype(np.uint8): with a maximum of 0
\* every element is 0/0 = NaN (numpy warns and goes on), cast as the build does.
Normalize(combined, nan) ==
    LET top == SeqMax(combined.buf)
    IN  [combined EXCEPT !.buf = [n \in 1..Len(combined.buf) |->
            IF top = 0 THEN nan ELSE (combined.buf[n] * Uint8Max) \div top]]

\* cv2.cvtColor(combined, cv2.COLOR_GRAY2BGR): shape (rows, cols, 3).
Gray2Bgr(g) ==
    [shape |-> <<g.shape[1], g.shape[2], 3>>,
     buf |-> [n \in 1..(3 * Len(g.buf)) |-> g.buf[((n - 1) \div 3) + 1]]]

\* combined = np.hstack([xy_padded, yz_padded, xz_padded]) of iteration i,
\* its three slices being extracted.
Combined(v, i) ==
    HStack(Pad(IndexAxis0(v, i), Max3(v.shape[1], v.shape[2], v.shape[3])),
           Pad(IndexAxis1(v, i), Max3(v.shape[1], v.shape[2], v.shape[3])),
           Pad(IndexAxis2(v, i), Max3(v.shape[1], v.shape[2], v.shape[3])))

\* The frame of one iteration whose three slices were extracted.
Frame(v, i, nan) == Gray2Bgr(Normalize(Combined(v, i), nan))

RECURSIVE AnimateLoop(_, _, _, _)
\* for i in range(depth): the frames written so far, and the IndexError that
\* volume[:, i, :] or volume[:, :, i] raises once i leaves its axis.
AnimateLoop(v, i, nan, frames) ==
    IF i = v.shape[1] THEN [err |-> "none", frames |-> frames]
    ELSE IF ~InBounds(i, v.shape[2]) \/ ~InBounds(i, v.shape[3])
    THEN [err |-> "IndexError", frames |-> frames]
    ELSE AnimateLoop(v, i + 1, nan, Append(frames, Frame(v, i, nan)))

\* A bug: no check of the loaded flag; without a volume nothing is written
\* and the call returns.
FIBTomo_animate_slices_unchecked(t, nan) ==
    IF t.volume = None THEN [tomo |-> t, err |-> "none", out |-> <<>>]
    ELSE [tomo |-> t, err |-> AnimateLoop(t.volume, 0, nan, <<>>).err,
          out |-> AnimateLoop(t.volume, 0, nan, <<>>).frames]

\* FIBTomo.animate_slices()
FIBTomo_animate_slices(t, nan) ==
    IF ~t.loaded \/ t.volume = None
    THEN [tomo |-> t, err |-> "ValueError", out |-> None]
    ELSE LET run == AnimateLoop(t.volume, 0, nan, <<>>)
         IN  [tomo |-> t, err |-> run.err, out |-> run.frames]

(***************************************************************************)
(* FIBTomoVTKApp.create_orthogonal_slice_actors (src/GUI.py), which reads  *)
(* only the application's FIBTomo object.                                  *)
(***************************************************************************)
\* The record of one direct indexing volume[.., index, ..] on an axis.
Indexed(axis, index, dim) == [axis |-> axis, index |-> index, dim |-> dim]

create_orthogonal_slice_actors(t) ==
    LET axial == get_vtk_image(t)
        y_index == t.y_offset
        x_index == t.x_offset
        D == t.volume.shape[1]
        H == t.volume.shape[2]
        W == t.volume.shape[3]
    IN  IF axial.err # "none" THEN axial
        ELSE IF ~InBounds(y_index, H)
        THEN [tomo |-> t, err |-> "IndexError",
              out |-> [indexed |-> <<Indexed("z", axial.out.index, D),
                                     Indexed("y", y_index, H)>>]]
        ELSE IF ~InBounds(x_index, W)
        THEN [tomo |-> t, err |-> "IndexError",
              out |-> [indexed |-> <<Indexed("z", axial.out.index, D),
                                     Indexed("y", y_index, H),
                                     Indexed("x", x_index, W)>>]]
        ELSE [tomo |-> t, err |-> "none",
              out |-> [indexed |-> <<Indexed("z", axial.out.index, D),
                                     Indexed("y", y_index, H),
                                     Indexed("x", x_index, W)>>,
                       axial |-> axial.out.slice,
                       coronal |-> IndexAxis1(t.volume, y_index),
                       sagittal |-> IndexAxis2(t.volume, x_index)]]

(***************************************************************************)
(* class FIBTomoVTKApp (src/GUI.py).  A handler is an operator on the      *)
(* record m = [tomo, app, indexed, errors]: the FIBTomo object, the        *)
(* widgets and VTK objects of the application, the direct indexings made   *)
(* so far by the handler that runs, and the exceptions raised in it.  Qt   *)
(* calls a slot from inside setValue when the value changes; an exception  *)
(* leaves the slot it was raised in, PySide reports it, and the caller of  *)
(* setValue goes on.                                                       *)
(***************************************************************************)
\* Qt's QSlider() has the range 0..99 and the value 0 until told otherwise.
QSliderDefaultMax == 99

Axes == {"x", "y", "z"}

ViewModes == {"Volume Rendering", "Slice View"}

\* The indexings a call of create_orthogonal_slice_actors made.
IndexedBy(r) == IF r.err = "ValueError" THEN <<>> ELSE r.out.indexed

\* vtkPlane with SetNormal and SetOrigin
Plane(origin, normal) == [origin |-> origin, normal |-> normal]

\* self.slice_actors = <the result r of create_orthogonal_slice_actors()>
\* and the AddActor loop: the renderer shows the slices.  An exception of
\* the call leaves the handler.
AddSliceActors(m, r) ==
    IF r.err # "none"
    THEN [m EXCEPT !.indexed = @ \o IndexedBy(r), !.errors = Append(@, r.err)]
    ELSE [m EXCEPT !.app.props = "slices", !.indexed = @ \o IndexedBy(r)]

\* renderer.RemoveAllViewProps(), then the slice actors made anew and added.
ShowSlices(m) ==
    AddSliceActors([m EXCEPT !.app.props = "none"],
                   create_orthogonal_slice_actors(m.tomo))

\* A bug: the clipping planes left where get_volume_actor() put them.
MovePlanesNever(m, x, y, z) == m

\* plane_x/y/z.SetOrigin of update_slice_offset, the planes being there.
MovePlanes(m, x, y, z) ==
    [m EXCEPT !.app.planes = <<Plane(<<x, 0, 0>>, m.app.planes[1].normal),
                               Plane(<<0, y, 0>>, m.app.planes[2].normal),
                               Plane(<<0, 0, z>>, m.app.planes[3].normal)>>]

\* update_slice_offset() after self.tomo.update_slice(x, y, z)
RefreshView(m, x, y, z) ==
    IF m.app.view_mode = "Slice View" THEN ShowSlices(m)
    ELSE IF m.app.view_mode = "Volume Rendering" /\ m.app.planes # <<>>
    THEN MovePlanes(m, x, y, z)
    ELSE m

\* FIBTomoVTKApp.update_slice_offset(), the slot of the three sliders
update_slice_offset(m) ==
    RefreshView([m EXCEPT !.tomo = update_slice(m.tomo, m.app.slider["x"],
                                                m.app.slider["y"],
                                                m.app.slider["z"])],
                m.app.slider["x"], m.app.slider["y"], m.app.slider["z"])

\* QSlider.setValue(v): the value is kept inside the range; valueChanged is
\* emitted, and the slot run, only when the value changes.
setValue(m, axis, v) ==
    LET c == Clip(v, 0, m.app.slider_max[axis])
    IN  IF c = m.app.slider[axis] THEN m
        ELSE update_slice_offset([m EXCEPT !.app.slider[axis] = c])

\* QSlider.setRange(0, top): a value above the new maximum is pulled down to
\* it, which emits valueChanged.
setRange(m, axis, top) ==
    LET m1 == [m EXCEPT !.app.slider_max[axis] = top]
    IN  IF m.app.slider[axis] > top
        THEN update_slice_offset([m1 EXCEPT !.app.slider[axis] = top])
        ELSE m1

\* The vtk_data and the three clipping planes get_volume_actor() stores on
\* the application; an exception of create_vtk_volume() leaves the handler.
StoreVolumeActor(m, made) ==
    IF made.err # "none" THEN [m EXCEPT !.errors = Append(@, made.err)]
    ELSE [m EXCEPT !.app.vtk_data = made.out,
                   !.app.props = "volume",
                   !.app.planes =
                      <<Plane(<<m.tomo.x_offset, 0, 0>>, <<1, 0, 0>>),
                        Plane(<<0, m.tomo.y_offset, 0>>, <<0, 1, 0>>),
                        Plane(<<0, 0, m.tomo.z_offset>>, <<0, 0, 1>>)>>]

\* FIBTomoVTKApp.get_volume_actor(), and renderer.AddVolume of its result
get_volume_actor(m) ==
    StoreVolumeActor(m, FIBTomo_create_vtk_volume(m.tomo, None))

\* One slider call of change_view_mode: <<"setRange", axis, top>> or
\* <<"setValue", axis, v>>.
SliderCall(m, c) ==
    IF c[1] = "setRange" THEN setRange(m, c[2], c[3]) ELSE setValue(m, c[2], c[3])

RECURSIVE SliderCalls(_, _)
\* The slider calls of a branch of change_view_mode, in the order made.
SliderCalls(m, calls) ==
    IF calls = <<>> THEN m
    ELSE SliderCalls(SliderCall(m, Head(calls)), Tail(calls))

\* The three setRange and three setValue calls of a branch.
SetSliders(m, width, height, depth, x, y, z) ==
    SliderCalls(m, << <<"setRange", "x", width>>,
                      <<"setRange", "y", height>>,
                      <<"setRange", "z", depth>>,
                      <<"setValue", "x", x>>,
                      <<"setValue", "y", y>>,
                      <<"setValue", "z", z>> >>)

\* The "Volume Rendering" branch after the slider calls.
ShowVolume(m, width, height, depth) ==
    get_volume_actor([m EXCEPT !.tomo = update_slice(m.tomo, width, height, depth),
                               !.app.props = "none"])

\* The "Slice View" branch after the slider calls.
ShowCenter(m, center_x, center_y, center_z) ==
    ShowSlices([m EXCEPT !.tomo = update_slice(m.tomo, center_x, center_y, center_z)])

\* change_view_mode(mode) after its first line, the shape of the volume.
ChangeView(m, mode, depth, height, width) ==
    IF mode = "Volume Rendering"
    THEN ShowVolume(SetSliders(m, width, height, depth, 0, 0, 0),
                    width, height, depth)
    ELSE IF mode = "Slice View"
    THEN ShowCenter(SetSliders(m, width, height, depth,
                               width \div 2, height \div 2, depth \div 2),
                    width \div 2, height \div 2, depth \div 2)
    ELSE m

\* FIBTomoVTKApp.change_view_mode(mode)
change_view_mode(m, mode) ==
    ChangeView(m, mode, m.tomo.volume.shape[1], m.tomo.volume.shape[2],
               m.tomo.volume.shape[3])

\* The widgets as __init__ makes them, before its call of change_view_mode.
Widgets ==
    [view_mode |-> "Volume Rendering",
     slider |-> [a \in Axes |-> 0],
     slider_max |-> [a \in Axes |-> QSliderDefaultMax],
     planes |-> <<>>,
     props |-> "none",
     vtk_data |-> None]

\* FIBTomoVTKApp.__init__ over the stack stored in ./image_stack.tif
FIBTomoVTKApp_init(f) ==
    change_view_mode([tomo |-> load_image_file(FIBTomo_init(DefaultDims), f).tomo,
                      app |-> Widgets, indexed |-> <<>>, errors |-> <<>>],
                     "Volume Rendering")

\* No application: the state of app where only a FIBTomo object is in use.
NoApp == [view_mode |-> "none"]

(***************************************************************************)
(* FIBTomoVTKApp's scale bar (src/GUI.py).  The record a holds what the    *)
(* scale bar reads and writes: the size of the render window, the camera   *)
(* of the renderer, whether add_scale_bar() has made the actors, and the   *)
(* text and the end points it shows.  A length is an integer number of     *)
(* hundredths, the precision of the text f"{world_distance:.2f} mm".       *)
(***************************************************************************)
\* update_scale_bar's margin = 20 and pixel_length = 100, in pixels.
margin == 20

pixel_length == 100

\* The hundredths in a unit: the two decimals of the scale bar's text.
Hundredths == 100

\* The cameras the renderer is given: what DisplayToWorld() makes of a
\* display point.  The world coordinates of each are multiples of its w at
\* every display point the scale bar asks for, so that the division by w is
\* exact in hundredths.
Cameras == {"identity", "halved", "degenerate", "tilted", "split"}

\* renderer.SetDisplayPoint(x, y, 0); renderer.DisplayToWorld();
\* renderer.GetWorldPoint(): the homogeneous world point (X, Y, Z, w).
DisplayToWorld(camera, x, y) ==
    CASE camera = "identity" -> <<x, y, 0, 1>>
      [] camera = "halved" -> <<x, y, 0, 2>>
      [] camera = "degenerate" -> <<x, y, 0, 0>>
      [] camera = "tilted" -> <<3 * x, 4 * x, 0, 5>>
      [] camera = "split" ->
            <<x, y, 0, IF x >= Hundredths * pixel_length THEN 2 ELSE 1>>

\* A bug: the world point used as it comes, w and all.
Homogeneous(p) == p

\* if world_point[3] != 0: world_point = [world_point[i] / world_point[3]
\* for i in range(3)]; otherwise the four components stay.
Dehomogenize(p) ==
    IF p[4] # 0 THEN <<p[1] \div p[4], p[2] \div p[4], p[3] \div p[4]>> ELSE p

RECURSIVE Newton(_, _)
\* Newton's iteration down to the integer part of the square root of n.
Newton(n, x) ==
    IF (x + n \div x) \div 2 >= x THEN x ELSE Newton(n, (x + n \div x) \div 2)

\* math.sqrt(n) to the nearest integer: with n in hundredths squared, the
\* hundredths that the format .2f prints.
Sqrt(n) ==
    IF n = 0 THEN 0
    ELSE IF n - Newton(n, n) * Newton(n, n) > Newton(n, n)
    THEN Newton(n, n) + 1
    ELSE Newton(n, n)

\* int(v) of a float v held in hundredths: the fraction dropped, toward 0.
int(v) == IF v >= 0 THEN v \div Hundredths ELSE -((-v) \div Hundredths)

\* update_scale_bar() from the two world points on: the distance, the
\* text, its place and the end points of the bar.  Without the actors of
\* add_scale_bar() the first use of self.scale_bar_text raises.
ShowScaleBar(a, x1, y, world_point1, world_point2) ==
    IF ~a.added THEN [app |-> a, err |-> "AttributeError"]
    ELSE [app |-> [a EXCEPT !.scale_bar =
                      [world_distance |->
                          Sqrt((world_point2[1] - world_point1[1])
                                  * (world_point2[1] - world_point1[1])
                               + (world_point2[2] - world_point1[2])
                                  * (world_point2[2] - world_point1[2])
                               + (world_point2[3] - world_point1[3])
                                  * (world_point2[3] - world_point1[3])),
                       text_position |->
                          <<int(x1 + (Hundredths * pixel_length) \div 2),
                            y \div Hundredths + 10>>,
                       points |-> <<SubSeq(world_point1, 1, 3),
                                    SubSeq(world_point2, 1, 3)>>]],
          err |-> "none"]

\* update_scale_bar() from x2 = 0.5 * width - margin on.
ProjectScaleBar(a, x2) ==
    ShowScaleBar(a, x2 - Hundredths * pixel_length, Hundredths * margin,
                 Dehomogenize(DisplayToWorld(a.camera,
                                             x2 - Hundredths * pixel_length,
                                             Hundredths * margin)),
                 Dehomogenize(DisplayToWorld(a.camera, x2, Hundredths * margin)))

\* FIBTomoVTKApp.update_scale_bar()
update_scale_bar(a) ==
    ProjectScaleBar(a, (Hundredths * a.size[1]) \div 2 - Hundredths * margin)

\* FIBTomoVTKApp.add_scale_bar(): the actors, then update_scale_bar().
add_scale_bar(a) == update_scale_bar([a EXCEPT !.added = TRUE])

\* The scale bar of an application that has not called add_scale_bar().
NoScaleBar == [world_distance |-> 0, text_position |-> <<0, 0>>, points |-> <<>>]

(***************************************************************************)
(* class VTK3DReconstruction (src/VTK3DReconstruction.py)                  *)
(***************************************************************************)
\* keyboard_callback's movement = 5, the step of a slicing plane in voxels.
movement == 5

\* The names of the slicing planes, and the key that selects each.
SliceAxes == {"X", "Y", "Z"}

Keys == {"x", "y", "z", "q"}

\* VTK3DReconstruction.__init__ over the stack f stored in ./image_stack.tif:
\* planes and plane_actors are empty dicts, the renderer holds no actor, and
\* no observer of key presses is registered yet.
VTK3D_init(f) ==
    [file |-> f,
     image_stack |-> Stack(f),
     vtk_data |-> None,
     active_slice_axis |-> "None",
     planes |-> [a \in {} |-> <<>>],
     plane_actors |-> [a \in {} |-> TRUE],
     renderer |-> {},
     observer |-> FALSE]

\* VTK3DReconstruction.create_vtk_volume(): the stack it leaves on the
\* object is the transposed one.
VTK3D_create_vtk_volume(r) ==
    LET depth == r.image_stack.shape[1]
        height == r.image_stack.shape[2]
        width == r.image_stack.shape[3]
        image_stack == Transpose210(r.image_stack)
    IN  [recon |-> [r EXCEPT !.image_stack = image_stack],
         err |-> "none",
         out |-> [dimensions |-> <<width, height, depth>>,
                  spacing |-> <<1, 1, 1>>,
                  scalars |-> RavelF(image_stack)]]

\* vtkImageData.GetCenter() with origin 0 and spacing 1: (dim - 1) / 2 on
\* each axis, held here in half voxels, as every plane origin is.
GetCenter(vtk_data) ==
    <<vtk_data.dimensions[1] - 1, vtk_data.dimensions[2] - 1,
      vtk_data.dimensions[3] - 1>>

\* VTK3DReconstruction.add_slicing_planes(): a plane and a visible actor
\* per axis, each plane at the center of self.vtk_data.
add_slicing_planes(r) ==
    [r EXCEPT !.planes = [a \in SliceAxes |-> GetCenter(r.vtk_data)],
              !.plane_actors = [a \in SliceAxes |-> TRUE],
              !.renderer = @ \cup {"slicing planes"}]

\* show_orthogonal_planes() after self.vtk_data = self.create_vtk_volume():
\* a new renderer, holding the three cut actors made here.
ShowPlanes(made) ==
    [recon |-> [made.recon EXCEPT !.vtk_data = made.out,
                                  !.renderer = {"orthogonal planes"}],
     err |-> "none",
     out |-> [made |-> <<made.out>>]]

\* VTK3DReconstruction.show_orthogonal_planes()
VTK3D_show_orthogonal_planes(r) == ShowPlanes(VTK3D_create_vtk_volume(r))

\* visualize_3d_model() after self.vtk_data = self.create_vtk_volume(), up
\* to interactor.Start(), which hands the key presses to keyboard_callback.
Visualize(made, shown) ==
    [recon |-> [shown.recon EXCEPT !.observer = TRUE],
     err |-> "none",
     out |-> [made |-> <<made.out>> \o shown.out.made]]

\* VTK3DReconstruction.visualize_3d_model()
visualize_3d_model(r) ==
    Visualize(VTK3D_create_vtk_volume(r),
              VTK3D_show_orthogonal_planes(
                  add_slicing_planes(
                      [VTK3D_create_vtk_volume(r).recon
                          EXCEPT !.vtk_data = VTK3D_create_vtk_volume(r).out])))

\* VTK3DReconstruction.navigate_to_slice(axis, slice_position);
\* self.volume_actor is None, in no renderer, and AddVolume(None) adds none.
navigate_to_slice(r, axis, slice_position) ==
    [r EXCEPT !.plane_actors = [a \in DOMAIN r.plane_actors |-> a = axis],
              !.planes = [a \in DOMAIN r.planes |->
                             IF a = axis THEN slice_position ELSE r.planes[a]]]

\* The slice_position keyboard_callback computes for an axis.
Moved(center, axis) ==
    <<center[1] + (IF axis = "X" THEN 2 * movement ELSE 0),
      center[2] + (IF axis = "Y" THEN 2 * movement ELSE 0),
      center[3] + (IF axis = "Z" THEN 2 * movement ELSE 0)>>

\* The plane a key selects.
KeyAxis(key) == IF key = "x" THEN "X" ELSE IF key = "y" THEN "Y" ELSE "Z"

\* VTK3DReconstruction.keyboard_callback(obj, event), key = obj.GetKeySym()
keyboard_callback(r, key) ==
    IF key \in {"x", "y", "z"}
    THEN navigate_to_slice([r EXCEPT !.active_slice_axis = KeyAxis(key)],
                           KeyAxis(key), Moved(GetCenter(r.vtk_data), KeyAxis(key)))
    ELSE r

\* VTK3DReconstruction.animate_slices()
VTK3D_animate_slices(r, nan) ==
    LET run == AnimateLoop(r.image_stack, 0, nan, <<>>)
    IN  [recon |-> r, err |-> run.err, out |-> [frames |-> run.frames]]

\* No pipeline: the state of recon where no VTK3DReconstruction is in use.
NoRecon == [image_stack |-> None, vtk_data |-> None]

(***************************************************************************)
(* The state                                                               *)
(***************************************************************************)
VARIABLES
    tomo,   \* the FIBTomo object: dims, volume, loaded, x/y/z_offset
    app,    \* the FIBTomoVTKApp around it: sliders, view mode, planes, actors
    recon,  \* the VTK3DReconstruction object
    pc,     \* "idle", or "fill" inside load_image()'s synthetic loops
    loop,   \* <<z, y>>: the loop variables of load_image() while pc = "fill"
    last    \* the last call: [op, arg, err, out]; err = "running" inside one

vars == <<tomo, app, recon, pc, loop, last>>

Call(op, arg, err, out) == [op |-> op, arg |-> arg, err |-> err, out |-> out]

\* A method of the FIBTomo object that runs in one step.
Returns(op, arg, res) ==
    /\ pc = "idle"
    /\ tomo' = res.tomo
    /\ last' = Call(op, arg, res.err, res.out)
    /\ UNCHANGED <<app, recon, pc, loop>>

(***************************************************************************)
(* Spec: tomo = FIBTomo(), as GUI.py and the module's own main make it,    *)
(* and the calls a program makes on it.                                    *)
(***************************************************************************)
Init ==
    /\ tomo = FIBTomo_init(DefaultDims)
    /\ app = NoApp
    /\ recon = NoRecon
    /\ pc = "idle"
    /\ loop = <<0, 0>>
    /\ last = Call("__init__", None, "none", None)

\* tomo.update_slice(x, y, z) with each argument drawn from S
UpdateSliceIn(S) ==
    \E x \in S, y \in S, z \in S :
        Returns("update_slice", <<x, y, z>>,
                [tomo |-> update_slice(tomo, x, y, z), err |-> "none", out |-> None])

UpdateSlice == UpdateSliceIn(OffsetInputs)

\* tomo.load_image(filename)
LoadImageFile ==
    \E f \in Files \cup {NoSuchFile} :
        Returns("load_image", f, load_image_file(tomo, f))

\* tomo.get_vtk_image()
GetVtkImage == Returns("get_vtk_image", None, get_vtk_image(tomo))

\* tomo.create_vtk_volume(), and tomo.create_vtk_volume(image_stack)
CreateVtkVolume ==
    \E image_stack \in {None, Stack(ExplicitShape)} :
        Returns("create_vtk_volume", image_stack,
                FIBTomo_create_vtk_volume(tomo, image_stack))

\* tomo.show_orthogonal_planes(), and with a vtk_data made beforehand
ShowOrthogonalPlanes ==
    \E vtk_data \in {None, VtkVolume(Stack(ExplicitShape))} :
        Returns("show_orthogonal_planes", vtk_data,
                FIBTomo_show_orthogonal_planes(tomo, vtk_data))

\* tomo.generate_volume_rendering(), and with a vtk_data made beforehand
GenerateVolumeRendering ==
    \E vtk_data \in {None, VtkVolume(Stack(ExplicitShape))} :
        Returns("generate_volume_rendering", vtk_data,
                generate_volume_rendering(tomo, vtk_data))

\* tomo.animate_slices()
AnimateSlices ==
    \E nan \in NanCasts :
        Returns("animate_slices", None, FIBTomo_animate_slices(tomo, nan))

\* create_orthogonal_slice_actors() of an application holding this object
CreateOrthogonalSliceActors ==
    Returns("create_orthogonal_slice_actors", None,
            create_orthogonal_slice_actors(tomo))

Next ==
    \/ UpdateSlice
    \/ LoadImageFile
    \/ GetVtkImage
    \/ CreateVtkVolume
    \/ ShowOrthogonalPlanes
    \/ GenerateVolumeRendering
    \/ AnimateSlices
    \/ CreateOrthogonalSliceActors

Spec == Init /\ [][Next]_vars

(***************************************************************************)
(* SpecLoad: tomo = FIBTomo(dims) and its loads, load_image() without a    *)
(* file name taken one statement at a time.                                *)
(***************************************************************************)
InitLoad ==
    /\ \E dims \in Dims : tomo = FIBTomo_init(dims)
    /\ app = NoApp
    /\ recon = NoRecon
    /\ pc = "idle"
    /\ loop = <<0, 0>>
    /\ last = Call("__init__", None, "none", None)

\* tomo.update_slice(x, y, z) away from the center, below and above the range
UpdateSliceFar == UpdateSliceIn({-1, MaxDim})

\* tomo.load_image(): self.volume = np.zeros(self.dims, dtype=np.uint8)
LoadImageZeros ==
    /\ pc = "idle"
    /\ tomo' = [tomo EXCEPT !.volume = Zeros(tomo.dims)]
    /\ pc' = "fill"
    /\ loop' = <<0, 0>>
    /\ last' = Call("load_image", NoFile, "running", None)
    /\ UNCHANGED <<app, recon>>

\* tomo.load_image(): one pass of the inner loop, self.volume[z, y, :] = ...
LoadImageRow ==
    /\ pc = "fill"
    /\ loop[1] < tomo.dims[1]
    /\ tomo' = [tomo EXCEPT !.volume = SetRow(tomo.volume, loop[1], loop[2])]
    /\ loop' = IF loop[2] + 1 < tomo.dims[2] THEN <<loop[1], loop[2] + 1>>
               ELSE <<loop[1] + 1, 0>>
    /\ UNCHANGED <<app, recon, pc, last>>

\* tomo.load_image(): after the loops, the flag, the offsets and the return.
LoadImageDone ==
    /\ pc = "fill"
    /\ loop[1] = tomo.dims[1]
    /\ tomo' = load_image_finish(tomo)
    /\ pc' = "idle"
    /\ loop' = <<0, 0>>
    /\ last' = Call("load_image", NoFile, "none", tomo.volume)
    /\ UNCHANGED <<app, recon>>

NextLoad ==
    \/ UpdateSliceFar
    \/ LoadImageFile
    \/ LoadImageZeros
    \/ LoadImageRow
    \/ LoadImageDone
    \/ GetVtkImage

SpecLoad == InitLoad /\ [][NextLoad]_vars

(***************************************************************************)
(* SpecGui: the application after FIBTomoVTKApp() and the user's moves.    *)
(***************************************************************************)
\* What a handler leaves: the objects, and the record of the handler.
Handled(op, arg, m) ==
    /\ tomo' = m.tomo
    /\ app' = m.app
    /\ last' = Call(op, arg,
                    IF m.errors = <<>> THEN "none" ELSE m.errors[1],
                    [indexed |-> m.indexed, errors |-> m.errors])
    /\ UNCHANGED <<recon, pc, loop>>

\* The record a handler starts from.
Handler == [tomo |-> tomo, app |-> app, indexed |-> <<>>, errors |-> <<>>]

\* The state a constructed application m is in.
Constructed(m) ==
    /\ tomo = m.tomo
    /\ app = m.app
    /\ last = Call("change_view_mode", "Volume Rendering",
                   IF m.errors = <<>> THEN "none" ELSE m.errors[1],
                   [indexed |-> m.indexed, errors |-> m.errors])

InitGui ==
    /\ \E f \in Files : Constructed(FIBTomoVTKApp_init(f))
    /\ recon = NoRecon
    /\ pc = "idle"
    /\ loop = <<0, 0>>

\* The user drags a slider to another value of its range.
MoveSlider ==
    \E axis \in Axes :
        \E v \in 0..app.slider_max[axis] :
            /\ v # app.slider[axis]
            /\ Handled("update_slice_offset", <<axis, v>>, setValue(Handler, axis, v))

\* The user picks the other entry of the view-mode box.
SelectViewMode ==
    \E mode \in ViewModes :
        /\ mode # app.view_mode
        /\ Handled("change_view_mode", mode,
                   change_view_mode([Handler EXCEPT !.app.view_mode = mode], mode))

NextGui ==
    \/ MoveSlider
    \/ SelectViewMode

SpecGui == InitGui /\ [][NextGui]_vars

(***************************************************************************)
(* SpecRecon: processor = VTK3DReconstruction() and the calls made on it,  *)
(* with the key presses that reach it once visualize_3d_model() has        *)
(* started the interactor.                                                 *)
(***************************************************************************)
\* A method of the VTK3DReconstruction object.
ReconReturns(op, arg, res) ==
    /\ recon' = res.recon
    /\ last' = Call(op, arg, res.err, res.out)
    /\ UNCHANGED <<tomo, app, pc, loop>>

InitRecon ==
    /\ \E f \in Files : recon = VTK3D_init(f)
    /\ tomo = FIBTomo_init(DefaultDims)
    /\ app = NoApp
    /\ pc = "idle"
    /\ loop = <<0, 0>>
    /\ last = Call("__init__", None, "none", None)

\* processor.create_vtk_volume()
ReconCreateVtkVolume ==
    ReconReturns("VTK3D.create_vtk_volume", None,
                 [recon |-> VTK3D_create_vtk_volume(recon).recon,
                  err |-> "none",
                  out |-> [made |-> <<VTK3D_create_vtk_volume(recon).out>>]])

\* processor.show_orthogonal_planes()
ReconShowOrthogonalPlanes ==
    ReconReturns("VTK3D.show_orthogonal_planes", None,
                 VTK3D_show_orthogonal_planes(recon))

\* processor.visualize_3d_model(), as run_pipeline() calls it, once
ReconVisualize ==
    /\ ~recon.observer
    /\ ReconReturns("VTK3D.visualize_3d_model", None, visualize_3d_model(recon))

\* A key pressed in the render window
KeyPress ==
    /\ recon.observer
    /\ \E key \in Keys :
          ReconReturns("VTK3D.keyboard_callback", key,
                       [recon |-> keyboard_callback(recon, key),
                        err |-> "none", out |-> None])

\* processor.animate_slices()
ReconAnimateSlices ==
    \E nan \in NanCasts :
        ReconReturns("VTK3D.animate_slices", None,
                     VTK3D_animate_slices(recon, nan))

NextRecon ==
    \/ ReconCreateVtkVolume
    \/ ReconShowOrthogonalPlanes
    \/ ReconVisualize
    \/ KeyPress
    \/ ReconAnimateSlices

SpecRecon == InitRecon /\ [][NextRecon]_vars

(***************************************************************************)
(* SpecScaleBar: an application whose scale bar is added and recomputed    *)
(* while the window is resized and the camera moved.                       *)
(***************************************************************************)
\* A method of the application that works on the scale bar.
ScaleBarReturns(op, res) ==
    /\ app' = res.app
    /\ last' = Call(op, None, res.err, None)
    /\ UNCHANGED <<tomo, recon, pc, loop>>

InitScaleBar ==
    /\ tomo = load_image_file(FIBTomo_init(DefaultDims), ExplicitShape).tomo
    /\ \E width \in Widths, camera \in Cameras :
          app = [size |-> <<width, width>>, camera |-> camera,
                 added |-> FALSE, scale_bar |-> NoScaleBar]
    /\ recon = NoRecon
    /\ pc = "idle"
    /\ loop = <<0, 0>>
    /\ last = Call("__init__", None, "none", None)

\* The user resizes the window.
Resize ==
    /\ \E width \in Widths : app' = [app EXCEPT !.size = <<width, width>>]
    /\ last' = Call("resize", None, "none", None)
    /\ UNCHANGED <<tomo, recon, pc, loop>>

\* The camera of the renderer is moved.
MoveCamera ==
    /\ \E camera \in Cameras : app' = [app EXCEPT !.camera = camera]
    /\ last' = Call("camera", None, "none", None)
    /\ UNCHANGED <<tomo, recon, pc, loop>>

\* window.add_scale_bar()
AddScaleBar == ScaleBarReturns("add_scale_bar", add_scale_bar(app))

\* window.update_scale_bar()
UpdateScaleBar == ScaleBarReturns("update_scale_bar", update_scale_bar(app))

NextScaleBar ==
    \/ Resize
    \/ MoveCamera
    \/ AddScaleBar
    \/ UpdateScaleBar

SpecScaleBar == InitScaleBar /\ [][NextScaleBar]_vars

(***************************************************************************)
(* Properties                                                              *)
(***************************************************************************)
\* 0 <= i <= n - 1: i is an index of an axis of length n.
IsIndex(i, n) == (0 <= i) /\ (i <= n - 1)

\* The length of each axis the offsets move along: the held volume's, and
\* the constructor's dims while no volume is held.
Extent == IF tomo.volume = None THEN tomo.dims ELSE tomo.volume.shape

\* C1: after update_slice(x, y, z) has run, each stored offset is an index
\* of its axis, 0 <= offset <= dim - 1, whatever integers were passed.
C1_OffsetsClamped ==
    last.op = "update_slice" =>
        /\ IsIndex(tomo.x_offset, Extent[3])
        /\ IsIndex(tomo.y_offset, Extent[2])
        /\ IsIndex(tomo.z_offset, Extent[1])

\* C2: after a load_image that returned, the offsets are the center
\* (width // 2, height // 2, depth // 2) of the volume that is now held.
C2_OffsetsAtVolumeCenter ==
    (last.op = "load_image" /\ last.err = "none") =>
        /\ tomo.x_offset = tomo.volume.shape[3] \div 2
        /\ tomo.y_offset = tomo.volume.shape[2] \div 2
        /\ tomo.z_offset = tomo.volume.shape[1] \div 2

\* The stack a call of create_vtk_volume converted.
C3_Stack == IF last.arg = None THEN tomo.volume ELSE last.arg

\* C3: create_vtk_volume reports the dimensions (W, H, D) of the stack, its
\* buffer has D*H*W elements, and element x + W*y + W*H*z of the buffer is
\* the voxel [z][y][x] of the stack, for every voxel.
C3_LosslessPermutation ==
    (last.op = "create_vtk_volume" /\ last.err = "none") =>
        LET D == C3_Stack.shape[1]
            H == C3_Stack.shape[2]
            W == C3_Stack.shape[3]
        IN  /\ last.out.dimensions = <<W, H, D>>
            /\ Len(last.out.scalars) = D * H * W
            /\ \A z \in 0..(D - 1), y \in 0..(H - 1), x \in 0..(W - 1) :
                  last.out.scalars[x + W * y + W * H * z + 1]
                    = C3_Stack.buf[z * H * W + y * W + x + 1]

\* C3's case: the loaded volume, two voxels long on every axis the bound
\* allows, has been converted.
C3_Witness ==
    /\ last.op = "create_vtk_volume"
    /\ last.err = "none"
    /\ last.arg = None
    /\ tomo.volume.shape = <<MaxDim, MaxDim, MaxDim>>

\* C4: animate_slices on a loaded volume ends without an exception and has
\* written depth frames, each of shape (max_dim, 3 * max_dim, 3).
C4_DepthFrames ==
    (last.op = "animate_slices" /\ tomo.loaded) =>
        LET D == tomo.volume.shape[1]
            max_dim == Max3(D, tomo.volume.shape[2], tomo.volume.shape[3])
        IN  /\ last.err = "none"
            /\ Len(last.out) = D
            /\ \A i \in 1..Len(last.out) :
                  last.out[i].shape = <<max_dim, 3 * max_dim, 3>>

\* C5: a slice extracted at an index of its axis has the shape of the two
\* other axes and the volume's values: axial (height, width) with
\* slice[y][x] = volume[z][y][x], coronal (depth, width) with
\* slice[z][x] = volume[z][y][x], sagittal (depth, height) with
\* slice[z][y] = volume[z][y][x].
C5_SliceShapeAndValues ==
    LET v == tomo.volume
        D == v.shape[1]
        H == v.shape[2]
        W == v.shape[3]
        Axial(s, zi) ==
            /\ s.shape = <<H, W>>
            /\ \A y \in 0..(H - 1), x \in 0..(W - 1) :
                  At2(s, y, x) = At3(v, zi, y, x)
        Coronal(s, yi) ==
            /\ s.shape = <<D, W>>
            /\ \A z \in 0..(D - 1), x \in 0..(W - 1) :
                  At2(s, z, x) = At3(v, z, yi, x)
        Sagittal(s, xi) ==
            /\ s.shape = <<D, H>>
            /\ \A z \in 0..(D - 1), y \in 0..(H - 1) :
                  At2(s, z, y) = At3(v, z, y, xi)
    IN  /\ (last.op = "get_vtk_image" /\ last.err = "none") =>
              /\ IsIndex(last.out.index, D)
              /\ Axial(last.out.slice, last.out.index)
        /\ (/\ last.op = "create_orthogonal_slice_actors"
            /\ last.err = "none"
            /\ IsIndex(tomo.y_offset, H)
            /\ IsIndex(tomo.x_offset, W)) =>
              /\ Axial(last.out.axial, last.out.indexed[1].index)
              /\ Coronal(last.out.coronal, tomo.y_offset)
              /\ Sagittal(last.out.sagittal, tomo.x_offset)

\* C5's case: the three slices of the largest volume were extracted at the
\* last index of the height and width axes.
C5_Witness ==
    /\ last.op = "create_orthogonal_slice_actors"
    /\ last.err = "none"
    /\ tomo.volume.shape = <<MaxDim, MaxDim, MaxDim>>
    /\ tomo.y_offset = MaxDim - 1
    /\ tomo.x_offset = MaxDim - 1

\* C6: a handler of the application (a view-mode switch or a slider move)
\* indexes the volume only at indices 0..dim-1 of the axis, and no
\* exception is raised in it.
C6_HandlersIndexInRange ==
    last.op \in {"change_view_mode", "update_slice_offset"} =>
        /\ last.err = "none"
        /\ \A i \in 1..Len(last.out.indexed) :
              IsIndex(last.out.indexed[i].index, last.out.indexed[i].dim)

\* The slice, dimension and derived-product queries of FIBTomo.
Queries ==
    {"get_vtk_image", "create_vtk_volume", "animate_slices",
     "show_orthogonal_planes", "generate_volume_rendering"}

\* C7 as stated: while nothing is loaded, every query (create_vtk_volume
\* without an explicit stack) raises the not-loaded ValueError and leaves
\* the object as it was.
C7_NotLoadedFails ==
    [][(/\ ~tomo.loaded
        /\ last'.op \in Queries
        /\ ~(last'.op = "create_vtk_volume" /\ last'.arg # None))
       => (last'.err = "ValueError" /\ tomo' = tomo)]_vars

\* A call that was handed the data to convert or render.
C7_Explicit(call) ==
    /\ call.op \in {"create_vtk_volume", "generate_volume_rendering"}
    /\ call.arg # None

\* C7 as amended: while nothing is loaded, every query leaves the object as
\* it was and raises the not-loaded ValueError, except create_vtk_volume
\* with an explicit stack and generate_volume_rendering with an explicit
\* vtk_data, which return.
C7_NotLoadedFailsUnlessExplicit ==
    [][(~tomo.loaded /\ last'.op \in Queries)
       => /\ tomo' = tomo
          /\ last'.err = IF C7_Explicit(last') THEN "none" ELSE "ValueError"]_vars

\* C7's case: a query was made on an object that holds nothing and failed.
C7_Witness ==
    /\ ~tomo.loaded
    /\ last.op = "animate_slices"
    /\ last.err = "ValueError"

\* The number of elements of an array of shape s.
Size(s) == s[1] * s[2] * s[3]

\* C8: a load of a buffer whose length is not depth*height*width of the
\* declared dims fails with ShapeMismatch, and after a load that returned
\* the declared dims are the shape of the held volume.
C8_ShapeChecked ==
    last.op = "load_image" =>
        /\ (/\ last.arg \in Files
            /\ Size(last.arg) # Size(tomo.dims)) => last.err = "ShapeMismatch"
        /\ last.err = "none" => tomo.volume.shape = tomo.dims

\* The volume load_image() generates for dims: every row the gradient.
Synthetic(dims) ==
    [shape |-> dims,
     buf |-> [n \in 1..Size(dims) |-> Linspace(dims[3], (n - 1) % dims[3])]]

\* C9: a step of a load leaves the held buffer as it was or replaces it by
\* a whole new volume (a decoded stack, or the generated one), and a load
\* that fails leaves volume, flag and offsets as they were.
C9_LoadAtomic ==
    [][/\ tomo'.volume # tomo.volume
            => tomo'.volume \in {Stack(f) : f \in Files} \cup {Synthetic(tomo.dims)}
       /\ (last'.op = "load_image" /\ last'.err \notin {"none", "running"})
            => tomo' = tomo]_vars

\* C10: direct indexing with an index outside 0..dim-1 of its axis, a
\* negative one included, raises IndexError and returns no slice.
C10_StrictIndexing ==
    (/\ last.op = "create_orthogonal_slice_actors"
     /\ tomo.loaded
     /\ \/ ~IsIndex(tomo.y_offset, tomo.volume.shape[2])
        \/ ~IsIndex(tomo.x_offset, tomo.volume.shape[3]))
    => last.err = "IndexError"

\* C11: a frame whose combined slices have the maximum 0 is written as an
\* all-zero frame of the shape (max_dim, 3 * max_dim, 3) of every frame.
C11_ZeroMaxZeroFrame ==
    (last.op = "animate_slices" /\ tomo.loaded) =>
        \A i \in 1..Len(last.out) :
            SeqMax(Combined(tomo.volume, i - 1).buf) = 0 =>
                /\ last.out[i].shape = <<Combined(tomo.volume, i - 1).shape[1],
                                        Combined(tomo.volume, i - 1).shape[2], 3>>
                /\ \A n \in 1..Len(last.out[i].buf) : last.out[i].buf[n] = 0

\* C12: in "Volume Rendering" mode, once a mode switch or a slider change
\* is over, there are three clipping planes, normals (1,0,0), (0,1,0) and
\* (0,0,1), with the origins (x_offset,0,0), (0,y_offset,0), (0,0,z_offset)
\* of the offsets the FIBTomo object stores.
C12_PlanesTrackOffsets ==
    app.view_mode = "Volume Rendering" =>
        app.planes = <<Plane(<<tomo.x_offset, 0, 0>>, <<1, 0, 0>>),
                       Plane(<<0, tomo.y_offset, 0>>, <<0, 1, 0>>),
                       Plane(<<0, 0, tomo.z_offset>>, <<0, 0, 1>>)>>

\* C12's case: in "Volume Rendering" mode the x slider was dragged off the
\* place the mode switch left the plane at, onto the last voxel.
C12_Witness ==
    /\ app.view_mode = "Volume Rendering"
    /\ last.op = "update_slice_offset"
    /\ last.arg = <<"x", MaxDim - 1>>
    /\ tomo.volume.shape[3] = MaxDim
    /\ app.planes[1].origin = <<MaxDim - 1, 0, 0>>

C14_Calls ==
    {"VTK3D.create_vtk_volume", "VTK3D.show_orthogonal_planes",
     "VTK3D.visualize_3d_model"}

\* C14: every run of create_vtk_volume() on the loaded stack, a second or
\* later one included, reports the dimensions (width, height, depth) of the
\* stack and yields the oriented buffer the first run on it yields.
C14_CreateRepeatable ==
    last.op \in C14_Calls =>
        \A i \in 1..Len(last.out.made) :
            /\ last.out.made[i].dimensions =
                  <<recon.file[3], recon.file[2], recon.file[1]>>
            /\ last.out.made[i].scalars =
                  VTK3D_create_vtk_volume(VTK3D_init(recon.file)).out.scalars

\* C15: no operation but a load changes the held voxel buffer, neither its
\* contents nor its (depth, height, width) order of axes.
C15_BufferUntouched ==
    [][/\ recon'.image_stack = recon.image_stack
       /\ last'.op # "load_image" => tomo'.volume = tomo.volume]_vars

\* The center of the loaded stack in (x, y, z), in half voxels.
C19_Center == <<recon.file[3] - 1, recon.file[2] - 1, recon.file[1] - 1>>

\* C19, of a state: a plane is at the center of the volume or 5 further
\* along its own axis, the center being that of the loaded stack or that of
\* self.vtk_data; and once a plane is selected, its actor is the visible one.
C19_PlanesAtCenterOrMoved ==
    recon.observer =>
        /\ \E c \in {C19_Center, GetCenter(recon.vtk_data)} :
              \A a \in SliceAxes :
                 /\ recon.planes[a] \in {c, Moved(c, a)}
                 /\ recon.active_slice_axis = "None" => recon.planes[a] = c
        /\ recon.active_slice_axis # "None" =>
              \A a \in SliceAxes :
                 recon.plane_actors[a] = (a = recon.active_slice_axis)

\* C19, of a key press: 'x', 'y' or 'z' makes its axis the active one; any
\* other key changes nothing.
C19_KeySelects ==
    last'.op = "VTK3D.keyboard_callback" =>
        IF last'.arg \in {"x", "y", "z"}
        THEN recon'.active_slice_axis = KeyAxis(last'.arg)
        ELSE recon' = recon

\* C19: after any sequence of key presses the active axis is that of the
\* last 'x', 'y' or 'z', its actor alone is visible, and every plane is at
\* the volume center or exactly 5 along its own axis from it.
C19_KeysNavigate == [](C19_PlanesAtCenterOrMoved) /\ [][C19_KeySelects]_vars

\* C17's "Volume Rendering" half: the switch leaves each slider at the
\* maximum of its range, (width, height, depth), which is the stored offset.
C17_VolumeAtMaximum ==
    /\ app.slider_max = [a \in Axes |-> Extent[IF a = "x" THEN 3
                                                ELSE IF a = "y" THEN 2 ELSE 1]]
    /\ app.slider = app.slider_max
    /\ app.slider["x"] = tomo.x_offset
    /\ app.slider["y"] = tomo.y_offset
    /\ app.slider["z"] = tomo.z_offset

\* C17's "Slice View" half: the switch leaves the sliders and the stored
\* offsets at the center, dim // 2.
C17_SlicesAtCenter ==
    /\ app.slider["x"] = Extent[3] \div 2
    /\ app.slider["y"] = Extent[2] \div 2
    /\ app.slider["z"] = Extent[1] \div 2
    /\ tomo.x_offset = Extent[3] \div 2
    /\ tomo.y_offset = Extent[2] \div 2
    /\ tomo.z_offset = Extent[1] \div 2

\* C17: when change_view_mode(mode) is over, the sliders are at their
\* maximum and equal to the stored offsets for "Volume Rendering", and
\* sliders and offsets are at the center for "Slice View".
C17_SlidersFollowMode ==
    last.op = "change_view_mode" =>
        IF last.arg = "Volume Rendering" THEN C17_VolumeAtMaximum
        ELSE C17_SlicesAtCenter

\* C18: on a loaded volume get_vtk_image() returns the axial slice at
\* min(max(z_offset, 0), depth - 1), whatever z_offset is stored, and leaves
\* the offsets, the volume and the loaded flag as they were.
C18_ClampsForReadingOnly ==
    [][(last'.op = "get_vtk_image" /\ tomo.loaded) =>
          LET depth == tomo.volume.shape[1]
              z == IF tomo.z_offset < 0 THEN 0
                   ELSE IF tomo.z_offset > depth - 1 THEN depth - 1
                   ELSE tomo.z_offset
          IN  /\ last'.err = "none"
              /\ last'.out.index = z
              /\ last'.out.slice.shape = <<tomo.volume.shape[2], tomo.volume.shape[3]>>
              /\ \A y \in 0..(tomo.volume.shape[2] - 1),
                    x \in 0..(tomo.volume.shape[3] - 1) :
                    At2(last'.out.slice, y, x) = At3(tomo.volume, z, y, x)
              /\ tomo' = tomo]_vars

\* C18's case: the slice was read while the stored z_offset was past the
\* last slice of the deepest volume, and it is still stored.
C18_Witness ==
    /\ last.op = "get_vtk_image"
    /\ last.err = "none"
    /\ tomo.volume.shape[1] = MaxDim
    /\ tomo.z_offset = MaxDim
    /\ last.out.index = MaxDim - 1

\* The point the claim takes of a projected display point: its three
\* components divided by its own w where w is not 0.
C16_World(p) ==
    IF p[4] = 0 THEN <<p[1], p[2], p[3]>>
    ELSE <<p[1] \div p[4], p[2] \div p[4], p[3] \div p[4]>>

\* The square of the distance between two points.
C16_Distance2(p, q) ==
    (q[1] - p[1]) * (q[1] - p[1]) + (q[2] - p[2]) * (q[2] - p[2])
       + (q[3] - p[3]) * (q[3] - p[3])

\* C16: update_scale_bar() shows the distance between the projections of
\* the display points (x2 - 100, 20) and (x2, 20), x2 = width / 2 - 20, each
\* divided by its own w where w is not 0; under the identity projection in
\* a window 400 wide the distance is 100.
C16_ScaleBarDistance ==
    (last.op \in {"add_scale_bar", "update_scale_bar"} /\ last.err = "none") =>
        LET x2 == 50 * app.size[1] - 2000
            p == C16_World(DisplayToWorld(app.camera, x2 - 10000, 2000))
            q == C16_World(DisplayToWorld(app.camera, x2, 2000))
            d == app.scale_bar.world_distance
        IN  /\ (2 * d - 1) * (2 * d - 1) <= 4 * C16_Distance2(p, q)
            /\ 4 * C16_Distance2(p, q) <= (2 * d + 1) * (2 * d + 1)
            /\ app.scale_bar.points = <<p, q>>
            /\ (app.camera = "identity" /\ app.size[1] = 400) => d = 10000

\* C16's case: the bar was recomputed in a window 400 wide under a camera
\* whose w is 1 at one end of the bar and 2 at the other.
C16_Witness ==
    /\ last.op = "update_scale_bar"
    /\ last.err = "none"
    /\ app.size[1] = 400
    /\ app.camera = "split"
    /\ app.scale_bar.points = <<<<8000, 2000, 0>>, <<9000, 1000, 0>>>>

=============================================================================
